---------------------------- MODULE Spec2Model ----------------------------
(***************************************************************************)
(* A model of smas: the Matrix Market array text codec (src/src/io.rs),    *)
(* the epsilon comparison (src/src/util.rs) and the `solve` subcommand of  *)
(* the command line program (src/src/main.rs).                             *)
(*                                                                         *)
(* Text is a sequence of one-character strings, so that starts_with,       *)
(* split_whitespace, lines and the number parsers and formatters are       *)
(* modelled by what they do to characters.  An f64 is modelled by an exact *)
(* rational [num, den] (den > 0); the representation error of binary       *)
(* floating point is abstracted, the rounding done by the formatters is    *)
(* not.                                                                    *)
(***************************************************************************)
EXTENDS Integers, Sequences, FiniteSets, TLC

VARIABLES
    pc,              \* position of the call / of main
    input,           \* the arguments of the call (files are their contents)
    output,          \* what the call returned, [status |-> "pending"] before
    a_vector,        \* main: let a_vector
    s_matrix,        \* main: let s_matrix
    results_vector,  \* main: let results_vector
    stdout,          \* main: the rows print_matrix has written so far
    exit_status      \* main: the exit status of the process, -1 while running

vars == <<pc, input, output, a_vector, s_matrix, results_vector, stdout, exit_status>>

(***************************************************************************)
(* Bounds of the model.                                                    *)
(***************************************************************************)
\* parse_matrix is applied to every shape with nrows * ncols <= MaxCells
MaxCells == 6
\* the matrix tokens are the integers 1..MaxTokenVal
MaxTokenVal == 3
\* a document read by read_matrix_file has at most MaxLines lines
MaxLines == 4
\* a vector that is formatted or compared has at most MaxVecLen elements
MaxVecLen == 2
\* float_precision ranges over 0..MaxPrecision
MaxPrecision == 2

(***************************************************************************)
(* Characters and text.                                                    *)
(***************************************************************************)
DigitChars == <<"0", "1", "2", "3", "4", "5", "6", "7", "8", "9">>

IsDigit(c) == \E d \in 1..10 : DigitChars[d] = c

DigitVal(c) == (CHOOSE d \in 1..10 : DigitChars[d] = c) - 1

\* char::is_whitespace, for the characters the model's texts hold
IsWhitespace(c) == c \in {" ", "\t", "\n", "\r"}

RECURSIVE Pow10(_)
Pow10(k) == IF k <= 0 THEN 1 ELSE 10 * Pow10(k - 1)

\* the decimal digits of a natural number, most significant first
RECURSIVE Digits(_)
Digits(n) == IF n < 10 THEN <<DigitChars[n + 1]>>
             ELSE Append(Digits(n \div 10), DigitChars[(n % 10) + 1])

\* the natural number a sequence of digits denotes (0 for the empty one)
RECURSIVE NatOf(_)
NatOf(s) == IF s = <<>> THEN 0
            ELSE 10 * NatOf(SubSeq(s, 1, Len(s) - 1)) + DigitVal(s[Len(s)])

AllDigits(s) == \A i \in 1..Len(s) : IsDigit(s[i])

\* the first index of s holding a character of set cs, 0 when there is none
FirstIndex(s, cs) ==
    IF \E i \in 1..Len(s) : s[i] \in cs
    THEN CHOOSE i \in 1..Len(s) : s[i] \in cs /\ \A j \in 1..(i - 1) : s[j] \notin cs
    ELSE 0

\* the i-th smallest element of a finite set of integers
Nth(S, i) == CHOOSE k \in S : Cardinality({j \in S : j < k}) = i - 1

\* str::split_whitespace: the maximal runs of non-whitespace characters
split_whitespace(s) ==
    LET starts == {k \in 1..Len(s) : ~IsWhitespace(s[k]) /\ (k = 1 \/ IsWhitespace(s[k - 1]))}
        ends   == {k \in 1..Len(s) : ~IsWhitespace(s[k]) /\ (k = Len(s) \/ IsWhitespace(s[k + 1]))}
    IN  [i \in 1..Cardinality(starts) |-> SubSeq(s, Nth(starts, i), Nth(ends, i))]

(***************************************************************************)
(* Numbers.  An f64 is the rational num / den.                             *)
(***************************************************************************)
R(n, d) == [num |-> n, den |-> d]

Abs(x) == IF x < 0 THEN -x ELSE x

REq(a, b) == a.num * b.den = b.num * a.den
RLt(a, b) == a.num * b.den < b.num * a.den
RLe(a, b) == a.num * b.den <= b.num * a.den
RSub(a, b) == R(a.num * b.den - b.num * a.den, a.den * b.den)
RAbs(a) == R(Abs(a.num), a.den)

\* usize::from_str: an optional '+', then one or more digits
usize_from_str(tok) ==
    LET body == IF tok # <<>> /\ tok[1] = "+" THEN Tail(tok) ELSE tok
    IN  IF body # <<>> /\ AllDigits(body)
        THEN [ok |-> TRUE, val |-> NatOf(body)]
        ELSE [ok |-> FALSE, val |-> 0]

\* f64::from_str, for finite decimal literals:
\*   [+-] (digits | digits '.' digits* | digits* '.' digits) [(e|E) [+-] digits]
f64_from_str(tok) ==
    LET signed == tok # <<>> /\ tok[1] \in {"+", "-"}
        neg    == tok # <<>> /\ tok[1] = "-"
        body   == IF signed THEN Tail(tok) ELSE tok
        ePos   == FirstIndex(body, {"e", "E"})
        mant   == IF ePos = 0 THEN body ELSE SubSeq(body, 1, ePos - 1)
        expo   == IF ePos = 0 THEN <<>> ELSE SubSeq(body, ePos + 1, Len(body))
        eSigned == expo # <<>> /\ expo[1] \in {"+", "-"}
        eNeg   == expo # <<>> /\ expo[1] = "-"
        eDigs  == IF eSigned THEN Tail(expo) ELSE expo
        dot    == FirstIndex(mant, {"."})
        ip     == IF dot = 0 THEN mant ELSE SubSeq(mant, 1, dot - 1)
        fp     == IF dot = 0 THEN <<>> ELSE SubSeq(mant, dot + 1, Len(mant))
        valid  == /\ AllDigits(ip) /\ AllDigits(fp)
                  /\ Len(ip) + Len(fp) >= 1
                  /\ (ePos = 0 \/ (eDigs # <<>> /\ AllDigits(eDigs)))
        e      == IF ePos = 0 THEN 0
                  ELSE IF eNeg THEN -NatOf(eDigs) ELSE NatOf(eDigs)
        shift  == e - Len(fp)
        mag    == NatOf(ip \o fp)
    IN  IF ~valid THEN [ok |-> FALSE, val |-> R(0, 1)]
        ELSE [ok |-> TRUE,
              val |-> R((IF neg THEN -1 ELSE 1) * mag * Pow10(shift), Pow10(-shift))]

\* split_whitespace().map(|s| f64::from_str(s).expect(..)).collect():
\* the values of the tokens, or a panic at the first token that is no float
ParseFloats(text) ==
    LET toks == split_whitespace(text)
        vals == [k \in 1..Len(toks) |-> f64_from_str(toks[k])]
    IN  IF \E k \in 1..Len(toks) : ~vals[k].ok
        THEN [status |-> "panic", values |-> <<>>]
        ELSE [status |-> "ok", values |-> [k \in 1..Len(toks) |-> vals[k].val]]

(***************************************************************************)
(* nalgebra matrices: column-major storage.                                *)
(***************************************************************************)
\* DMatrix::from_vec(nrows, ncols, data): data is taken column by column;
\* it panics unless data.len() = nrows * ncols
DMatrix_from_vec(nrows, ncols, data) ==
    IF Len(data) # nrows * ncols
    THEN [status |-> "panic", nrows |-> 0, ncols |-> 0, data |-> <<>>]
    ELSE [status |-> "ok", nrows |-> nrows, ncols |-> ncols, data |-> data]

\* the element at row i, column j (0-based) of a column-major matrix
At(m, i, j) == m.data[i + j * m.nrows + 1]

\* Matrix::transpose: a new ncols x nrows matrix with t[i, j] = m[j, i]
transpose(m) ==
    [status |-> m.status, nrows |-> m.ncols, ncols |-> m.nrows,
     data |-> [k \in 1..Len(m.data) |->
                 LET i == (k - 1) % m.ncols
                     j == (k - 1) \div m.ncols
                 IN  At(m, j, i)]]

\* DVector::from_vec
DVector_from_vec(data) == [status |-> "ok", nrows |-> Len(data), ncols |-> 1, data |-> data]

(***************************************************************************)
(* io.rs: parse_vector, parse_matrix.                                      *)
(***************************************************************************)
parse_vector(vector_string) ==
    LET p == ParseFloats(vector_string)
    IN  IF p.status = "panic"
        THEN [status |-> "panic", nrows |-> 0, ncols |-> 0, data |-> <<>>]
        ELSE DVector_from_vec(p.values)

\* the transposition slip: from_vec is handed the row-major data as it is
parse_matrix_untransposed(matrix_string, nrows, ncols) ==
    LET p == ParseFloats(matrix_string)
    IN  IF p.status = "panic"
        THEN [status |-> "panic", nrows |-> 0, ncols |-> 0, data |-> <<>>]
        ELSE DMatrix_from_vec(nrows, ncols, p.values)

parse_matrix(matrix_string, nrows, ncols) ==
    LET p == ParseFloats(matrix_string)
        m == DMatrix_from_vec(ncols, nrows, p.values)
    IN  IF p.status = "panic" \/ m.status = "panic"
        THEN [status |-> "panic", nrows |-> 0, ncols |-> 0, data |-> <<>>]
        ELSE transpose(m)

(***************************************************************************)
(* io.rs: read_matrix_file, load_vector, load_matrix.                      *)
(* A file is [exists, text]; the result of read_matrix_file is             *)
(* [status, reason, nrows, ncols, values, lines_read]: status "some" for   *)
(* Some(MatrixData), "none" for None and "panic" for a panic, whose        *)
(* message is reason; lines_read counts the lines taken from the iterator  *)
(* when the function ends.                                                 *)
(***************************************************************************)
\* BufRead::lines (and str::lines): the text cut at every "\n", the newline
\* (and a "\r" before it) dropped; a final line needs no newline
lines(text) ==
    LET n == Len(text)
        nl == {k \in 1..n : text[k] = "\n"}
        ends == nl \cup (IF n > 0 /\ text[n] # "\n" THEN {n + 1} ELSE {})
        first(i) == IF i = 1 THEN 1 ELSE Nth(ends, i - 1) + 1
        last(i) == LET e == Nth(ends, i) - 1
                   IN  IF e >= first(i) /\ e < n /\ text[e] = "\r" THEN e - 1 ELSE e
    IN  [i \in 1..Cardinality(ends) |-> SubSeq(text, first(i), last(i))]

\* str::starts_with('%')
starts_with_percent(line) == line # <<>> /\ line[1] = "%"

\* the slip that reads a missing or unparsable dimension as 0
ParseDimensions_or_zero(split) ==
    [ok |-> TRUE, reason |-> "",
     rows |-> IF Len(split) >= 1 THEN usize_from_str(split[1]).val ELSE 0,
     cols |-> IF Len(split) >= 2 THEN usize_from_str(split[2]).val ELSE 0]

\* the slip that takes a dimension line of exactly two tokens only
ParseDimensions_exactly_two(split) ==
    IF Len(split) # 2 \/ ~usize_from_str(split[1]).ok \/ ~usize_from_str(split[2]).ok
    THEN [ok |-> FALSE, reason |-> "malformed dimension line", rows |-> 0, cols |-> 0]
    ELSE [ok |-> TRUE, reason |-> "", rows |-> usize_from_str(split[1]).val,
          cols |-> usize_from_str(split[2]).val]

\* the dimension line: split[0] and split[1] parsed as usize, each a panic
\* when it is missing or no unsigned integer
ParseDimensions(split) ==
    IF Len(split) < 1 THEN [ok |-> FALSE, reason |-> "index out of bounds", rows |-> 0, cols |-> 0]
    ELSE IF ~usize_from_str(split[1]).ok
         THEN [ok |-> FALSE, reason |-> "failed to parse row count", rows |-> 0, cols |-> 0]
    ELSE IF Len(split) < 2
         THEN [ok |-> FALSE, reason |-> "index out of bounds", rows |-> 0, cols |-> 0]
    ELSE IF ~usize_from_str(split[2]).ok
         THEN [ok |-> FALSE, reason |-> "failed to parse column count", rows |-> 0, cols |-> 0]
    ELSE [ok |-> TRUE, reason |-> "", rows |-> usize_from_str(split[1]).val,
          cols |-> usize_from_str(split[2]).val]

\* the slip that only catches a short read
LengthMismatch_short_only(len, total) == len < total

\* the final test of read_matrix_file: mat_data.len() != total
LengthMismatch(len, total) == len # total

\* the while loop: the index of the first line that does not start with '%',
\* 0 when every line does (the iterator is then exhausted)
DimensionLineIndex(ls) ==
    IF \E i \in 1..Len(ls) : ~starts_with_percent(ls[i])
    THEN CHOOSE i \in 1..Len(ls) :
            ~starts_with_percent(ls[i]) /\ \A j \in 1..(i - 1) : starts_with_percent(ls[j])
    ELSE 0

\* the for loop over the remaining lines, from line k on: every token is
\* pushed onto mat_data, a token that is no float panics
RECURSIVE ReadData(_, _, _)
ReadData(ls, k, acc) ==
    IF k > Len(ls) THEN [status |-> "ok", values |-> acc, lines_read |-> Len(ls)]
    ELSE LET p == ParseFloats(ls[k])
         IN  IF p.status = "panic"
             THEN [status |-> "panic", values |-> <<>>, lines_read |-> k]
             ELSE ReadData(ls, k + 1, acc \o p.values)

ReadFailure(reason, n) ==
    [status |-> "panic", reason |-> reason, nrows |-> 0, ncols |-> 0,
     values |-> <<>>, lines_read |-> n]

\* the end of read_matrix_file: the dimensions and the data that were read
MatrixDataOf(d, dims, body) ==
    IF ~dims.ok THEN ReadFailure(dims.reason, d)
    ELSE IF body.status = "panic"
         THEN ReadFailure("unwrap on an Err value", body.lines_read)
    ELSE IF LengthMismatch(Len(body.values), dims.rows * dims.cols)
         THEN [status |-> "none", reason |-> "", nrows |-> 0, ncols |-> 0,
               values |-> <<>>, lines_read |-> body.lines_read]
    ELSE [status |-> "some", reason |-> "", nrows |-> dims.rows, ncols |-> dims.cols,
          values |-> body.values, lines_read |-> body.lines_read]

\* the two loops of read_matrix_file over the lines ls, d the index of the
\* dimension line (0: there is none, rows = cols = 0 and no data is read)
ReadLines(ls, d) ==
    MatrixDataOf(d,
                 IF d = 0 THEN [ok |-> TRUE, reason |-> "", rows |-> 0, cols |-> 0]
                 ELSE ParseDimensions(split_whitespace(ls[d])),
                 IF d = 0 THEN [status |-> "ok", values |-> <<>>, lines_read |-> Len(ls)]
                 ELSE ReadData(ls, d + 1, <<>>))

ReadFile(ls) == ReadLines(ls, DimensionLineIndex(ls))

read_matrix_file(file) ==
    IF ~file.exists THEN ReadFailure("File::open", 0) ELSE ReadFile(lines(file.text))

\* DVector::from_vec(data.values) of Some(data), None or the panic otherwise
VectorOfData(data) ==
    IF data.status = "some" THEN DVector_from_vec(data.values)
    ELSE [status |-> data.status, nrows |-> 0, ncols |-> 0, data |-> <<>>]

load_vector(file) == VectorOfData(read_matrix_file(file))

\* DMatrix::from_vec(data.ncols, data.nrows, data.values).transpose() of
\* Some(data), None or the panic otherwise
MatrixOfData(data) ==
    IF data.status = "some"
    THEN transpose(DMatrix_from_vec(data.ncols, data.nrows, data.values))
    ELSE [status |-> data.status, nrows |-> 0, ncols |-> 0, data |-> <<>>]

load_matrix(file) == MatrixOfData(read_matrix_file(file))

(***************************************************************************)
(* Formatting of an f64: format!("{val:.p$}") and format!("{val:.p$e}").   *)
(* Both round the exact value to the digits they keep, ties to even.       *)
(***************************************************************************)
\* n / d rounded to the nearest integer, a tie to the even one (n >= 0, d > 0)
RoundHalfEven(n, d) ==
    LET q == n \div d
        r == n % d
    IN  IF 2 * r > d THEN q + 1
        ELSE IF 2 * r < d THEN q
        ELSE IF q % 2 = 0 THEN q ELSE q + 1

\* the digits of n, padded with zeros on the left to width w
ZeroPad(n, w) ==
    LET ds == Digits(n)
    IN  [k \in 1..(w - Len(ds)) |-> "0"] \o ds

Sign(v) == IF v.num < 0 THEN <<"-">> ELSE <<>>

\* {:.p$}: the integer part, and p digits after the decimal point when p > 0
fmt_decimal(v, p) ==
    LET m == RoundHalfEven(Abs(v.num) * Pow10(p), v.den)
    IN  Sign(v) \o Digits(m \div Pow10(p))
          \o (IF p > 0 THEN <<".">> \o ZeroPad(m % Pow10(p), p) ELSE <<>>)

\* the decimal exponent of n / d > 0: the e with 10^e <= n / d < 10^(e + 1)
RECURSIVE Exponent10(_, _)
Exponent10(n, d) ==
    IF n >= 10 * d THEN 1 + Exponent10(n, 10 * d)
    ELSE IF n < d THEN Exponent10(10 * n, d) - 1
    ELSE 0

\* {:.p$e}: one digit, p digits after the decimal point when p > 0, 'e' and
\* the exponent, which carries a '-' when negative and no '+'
fmt_scientific(v, p) ==
    LET n  == Abs(v.num)
        e0 == IF n = 0 THEN 0 ELSE Exponent10(n, v.den)
        m0 == RoundHalfEven(n * Pow10(p - e0), v.den * Pow10(e0 - p))
        carry == m0 >= Pow10(p + 1)
        m  == IF carry THEN m0 \div 10 ELSE m0
        e  == IF carry THEN e0 + 1 ELSE e0
        ds == ZeroPad(m, p + 1)
    IN  Sign(v) \o <<ds[1]>>
          \o (IF p > 0 THEN <<".">> \o SubSeq(ds, 2, p + 1) ELSE <<>>)
          \o <<"e">> \o (IF e < 0 THEN <<"-">> ELSE <<>>) \o Digits(Abs(e))

\* match float_format { Decimal => {:.p$}, Scientific => {:.p$e} }
fmt_float(v, float_format, float_precision) ==
    IF float_format = "Decimal" THEN fmt_decimal(v, float_precision)
    ELSE fmt_scientific(v, float_precision)

(***************************************************************************)
(* io.rs: format_vector_flat, format_vector_mm_array.                      *)
(***************************************************************************)
\* the slip in the separator test: i < nrows - 2
format_vector_flat_off_by_one(vector, float_format, float_precision) ==
    LET n == vector.nrows
        RECURSIVE Build(_)
        Build(i) ==
            IF i >= n THEN <<>>
            ELSE fmt_float(vector.data[i + 1], float_format, float_precision)
                   \o (IF i < n - 2 THEN <<" ">> ELSE <<>>) \o Build(i + 1)
    IN  Build(0)

format_vector_flat(vector, float_format, float_precision) ==
    LET n == vector.nrows
        RECURSIVE Build(_)
        Build(i) ==
            IF i >= n THEN <<>>
            ELSE fmt_float(vector.data[i + 1], float_format, float_precision)
                   \o (IF i < n - 1 THEN <<" ">> ELSE <<>>) \o Build(i + 1)
    IN  Build(0)

\* the slip that ends every value, the last one too, with a newline
format_vector_mm_array_newline(vector, float_format, float_precision, header) ==
    LET n == vector.nrows
        RECURSIVE Build(_)
        Build(i) ==
            IF i >= n THEN <<>>
            ELSE <<" ", " ">> \o fmt_float(vector.data[i + 1], float_format, float_precision)
                   \o <<"\n">> \o Build(i + 1)
    IN  <<"%", " ">> \o header \o <<"\n">>
          \o Digits(n) \o <<" ", "1", " ">> \o Digits(n) \o <<"\n">>
          \o Build(0)

format_vector_mm_array(vector, float_format, float_precision, header) ==
    LET n == vector.nrows
        RECURSIVE Build(_)
        Build(i) ==
            IF i >= n THEN <<>>
            ELSE <<" ", " ">> \o fmt_float(vector.data[i + 1], float_format, float_precision)
                   \o (IF i < n - 1 THEN <<"\n">> ELSE <<>>) \o Build(i + 1)
    IN  <<"%", " ">> \o header \o <<"\n">>
          \o Digits(n) \o <<" ", "1", " ">> \o Digits(n) \o <<"\n">>
          \o Build(0)

(***************************************************************************)
(* util.rs: epsilon_eq; io.rs: format_comparison_results.                  *)
(***************************************************************************)
\* the slip that follows the column title, |delta|<=epsilon
epsilon_eq_or_equal(a, b, epsilon) == RLe(RAbs(RSub(a, b)), epsilon)

epsilon_eq(a, b, epsilon) == RLt(RAbs(RSub(a, b)), epsilon)

\* "% computed \t true \t |delta| \t |delta|<=epsilon\n"
ComparisonHeader ==
    <<"%", " ", "c", "o", "m", "p", "u", "t", "e", "d", " ", "\t", " ",
      "t", "r", "u", "e", " ", "\t", " ",
      "|", "d", "e", "l", "t", "a", "|", " ", "\t", " ",
      "|", "d", "e", "l", "t", "a", "|", "<", "=", "e", "p", "s", "i", "l", "o", "n", "\n">>

\* Display for bool
fmt_bool(b) == IF b THEN <<"t", "r", "u", "e">> ELSE <<"f", "a", "l", "s", "e">>

\* one row: two spaces, then computed, true, |delta| and the flag, tab separated
ComparisonRow(val_computed, val_true, float_format, float_precision, epsilon) ==
    LET val_delta == RAbs(RSub(val_computed, val_true))
    IN  <<" ", " ">> \o fmt_float(val_computed, float_format, float_precision)
          \o <<"\t">> \o fmt_float(val_true, float_format, float_precision)
          \o <<"\t">> \o fmt_float(val_delta, float_format, float_precision)
          \o <<"\t">> \o fmt_bool(epsilon_eq(val_true, val_computed, epsilon))

\* the loop runs over the rows of reactions_computed; reactions_true.get(i)
\* is None, and expect panics, at the first i >= reactions_true.nrows()
format_comparison_results(reactions_computed, reactions_true, float_format, float_precision, epsilon) ==
    LET n_rows == reactions_computed.nrows
        RECURSIVE Build(_)
        Build(i) ==
            IF i >= n_rows THEN <<>>
            ELSE ComparisonRow(reactions_computed.data[i + 1], reactions_true.data[i + 1],
                               float_format, float_precision, epsilon)
                   \o (IF i < n_rows - 1 THEN <<"\n">> ELSE <<>>) \o Build(i + 1)
    IN  IF \E i \in 0..(n_rows - 1) : i >= reactions_true.nrows
        THEN [status |-> "panic", reason |-> "failed to retrieve true value at index",
              text |-> <<>>]
        ELSE [status |-> "ok", reason |-> "", text |-> ComparisonHeader \o Build(0)]

(***************************************************************************)
(* solve.rs: solve, by the Moore-Penrose pseudo-inverse.  The arithmetic   *)
(* is exact; the pseudo-inverse is computed for matrices of rank <= 2      *)
(* (every matrix with at most two rows or at most two columns).            *)
(***************************************************************************)
RECURSIVE Gcd(_, _)
Gcd(a, b) == IF b = 0 THEN a ELSE Gcd(b, a % b)

\* n / d in lowest terms, d > 0
RNorm(n, d) ==
    LET g == Gcd(Abs(n), Abs(d))
        sgn == IF d < 0 THEN -1 ELSE 1
    IN  R(sgn * (n \div g), sgn * (d \div g))

RZero == R(0, 1)
RAdd(a, b) == RNorm(a.num * b.den + b.num * a.den, a.den * b.den)
RMul(a, b) == RNorm(a.num * b.num, a.den * b.den)
RDiv(a, b) == RNorm(a.num * b.den, a.den * b.num)
RNeg(a) == R(-a.num, a.den)

RECURSIVE RSum(_)
RSum(seq) == IF seq = <<>> THEN RZero ELSE RAdd(Head(seq), RSum(Tail(seq)))

\* a matrix given by its elements: column-major storage of f(i, j), 0-based
MatrixOf(nrows, ncols, f(_, _)) ==
    [status |-> "ok", nrows |-> nrows, ncols |-> ncols,
     data |-> [k \in 1..(nrows * ncols) |-> f((k - 1) % nrows, (k - 1) \div nrows)]]

\* DMatrix::from_row_slice(nrows, ncols, data): data is taken row by row
DMatrix_from_row_slice(nrows, ncols, data) ==
    MatrixOf(nrows, ncols, LAMBDA i, j : data[i * ncols + j + 1])

\* a * b; nalgebra panics unless a.ncols = b.nrows
MatMul(a, b) ==
    IF a.ncols # b.nrows
    THEN [status |-> "panic", nrows |-> 0, ncols |-> 0, data |-> <<>>]
    ELSE MatrixOf(a.nrows, b.ncols,
                  LAMBDA i, j : RSum([k \in 1..a.ncols |-> RMul(At(a, i, k - 1), At(b, k - 1, j))]))

MatScale(a, c) == MatrixOf(a.nrows, a.ncols, LAMBDA i, j : RMul(At(a, i, j), c))

\* the sum of the squares of the elements: the sum of the squared singular values
FrobeniusSq(m) == RSum([k \in 1..Len(m.data) |-> RMul(m.data[k], m.data[k])])

Det2(m) == RAdd(RMul(At(m, 0, 0), At(m, 1, 1)), RNeg(RMul(At(m, 0, 1), At(m, 1, 0))))

\* the inverse of a 2 x 2 matrix of determinant # 0
Inverse2(m) ==
    LET d == Det2(m)
    IN  MatrixOf(2, 2, LAMBDA i, j :
            IF i = j THEN RDiv(At(m, 1 - i, 1 - j), d) ELSE RNeg(RDiv(At(m, i, j), d)))

Rank(m) ==
    IF \A k \in 1..Len(m.data) : m.data[k].num = 0 THEN 0
    ELSE IF \E i1, i2 \in 0..(m.nrows - 1) : \E j1, j2 \in 0..(m.ncols - 1) :
              i1 < i2 /\ j1 < j2 /\
              ~REq(RMul(At(m, i1, j1), At(m, i2, j2)), RMul(At(m, i1, j2), At(m, i2, j1)))
         THEN 2
    ELSE 1

\* the cutoff of solve: singular values <= SVD_EPSILON are taken for zero
SVD_EPSILON == R(1, 1000000000)

\* val > eps for the one singular value val of a matrix m of rank 1, its
\* Frobenius norm, and a cutoff eps = 1 / eps.den.  The cutoff is absolute: it
\* is not scaled by the matrix.  Computed within TLC's integers: an element
\* above eps decides, and otherwise the elements are scaled by 1 / eps first.
SingularValueAbove(m, eps) ==
    \/ \E k \in 1..Len(m.data) :
          m.data[k].num # 0 /\ m.data[k].den \div Abs(m.data[k].num) < eps.den
    \/ RLt(R(1, 1), FrobeniusSq(MatScale(m, R(eps.den, 1))))

\* Matrix::pseudo_inverse(eps): the SVD with the singular values above eps
\* inverted and the others zeroed.  It panics on an empty matrix (SVD) and is
\* Err for eps < 0.  Rank 1: the one singular value is the Frobenius norm and
\* the pseudo-inverse is m^T / |m|^2; rank 2 with two columns: (m^T m)^-1 m^T;
\* rank 2 with two rows: m^T (m m^T)^-1 (both singular values of the matrices of
\* the model lie far above eps).
pseudo_inverse(m, eps) ==
    LET t == transpose(m)
        zero == MatrixOf(m.ncols, m.nrows, LAMBDA i, j : RZero)
    IN  IF m.nrows * m.ncols = 0
        THEN [status |-> "panic", nrows |-> 0, ncols |-> 0, data |-> <<>>]
        ELSE IF eps.num < 0
        THEN [status |-> "err", nrows |-> 0, ncols |-> 0, data |-> <<>>]
        ELSE IF Rank(m) = 0 THEN zero
        ELSE IF Rank(m) = 1
             THEN IF SingularValueAbove(m, eps)
                  THEN MatScale(t, RDiv(R(1, 1), FrobeniusSq(m)))
                  ELSE zero
        ELSE IF m.ncols = 2 THEN MatMul(Inverse2(MatMul(t, m)), t)
        ELSE MatMul(t, Inverse2(MatMul(m, t)))

solve(acc_vector, smatrix) ==
    LET s_pseudo_inverse == pseudo_inverse(smatrix, SVD_EPSILON)
    IN  IF s_pseudo_inverse.status # "ok"
        THEN [status |-> "panic", nrows |-> 0, ncols |-> 0, data |-> <<>>]
        ELSE MatMul(s_pseudo_inverse, acc_vector)

(***************************************************************************)
(* util.rs: default_s_matrix.  S_MAT (39 x 28, in a file of constants) is  *)
(* stood for by a 3 x 2 matrix of rank 1 with a zero row.                  *)
(***************************************************************************)
S_MAT == <<R(1, 1), R(-1, 1), R(-2, 1), R(2, 1), R(0, 1), R(0, 1)>>

default_s_matrix == DMatrix_from_row_slice(3, 2, S_MAT)

(***************************************************************************)
(* What the variables of main hold while a library call is checked.        *)
(***************************************************************************)
NoMatrix == [status |-> "unset", nrows |-> 0, ncols |-> 0, data |-> <<>>]
Pending == [status |-> "pending"]

MainIdle ==
    /\ a_vector = NoMatrix
    /\ s_matrix = NoMatrix
    /\ results_vector = NoMatrix
    /\ stdout = <<>>
    /\ exit_status = -1

MainUnchanged == UNCHANGED <<a_vector, s_matrix, results_vector, stdout, exit_status>>

(***************************************************************************)
(* SpecParse: parse_matrix applied to every shape and token sequence.      *)
(***************************************************************************)
Shapes == {sh \in (1..MaxCells) \X (1..MaxCells) : sh[1] * sh[2] <= MaxCells}

\* the token values of an input: any values of 1..MaxTokenVal, or 1, 2, .., n
TokenSeqs(n) == [1..n -> 1..MaxTokenVal] \cup {[k \in 1..n |-> k]}

\* the text of a token sequence: rows of ncols tokens, tab separated, the rows
\* separated by " \n" as in tests::test_parse_matrix
MatrixText(toks, ncols) ==
    LET n == Len(toks)
        sep(k) == IF k = n THEN <<>> ELSE IF k % ncols = 0 THEN <<" ", "\n">> ELSE <<"\t">>
        RECURSIVE Build(_)
        Build(k) == IF k > n THEN <<>> ELSE Digits(toks[k]) \o sep(k) \o Build(k + 1)
    IN  Build(1)

InitParse ==
    /\ pc = "call"
    /\ \E sh \in Shapes : \E toks \in TokenSeqs(sh[1] * sh[2]) :
          input = [fn |-> "parse_matrix", tokens |-> toks,
                   text |-> MatrixText(toks, sh[2]), nrows |-> sh[1], ncols |-> sh[2]]
    /\ output = Pending
    /\ MainIdle

ParseMatrix ==
    /\ pc = "call"
    /\ input.fn = "parse_matrix"
    /\ output' = parse_matrix(input.text, input.nrows, input.ncols)
    /\ pc' = "return"
    /\ UNCHANGED input
    /\ MainUnchanged

NextParse == ParseMatrix

SpecParse == InitParse /\ [][NextParse]_vars

\* C2: for rows, cols >= 1 and rows * cols tokens, parse_matrix returns a
\* rows x cols matrix whose element at (row i, column j) is token i * cols + j,
\* that is, token k lands at row k \div cols, column k % cols.
C2_RowMajor ==
    (pc = "return" /\ input.fn = "parse_matrix") =>
        /\ output.status = "ok"
        /\ output.nrows = input.nrows
        /\ output.ncols = input.ncols
        /\ \A i \in 0..(input.nrows - 1) : \A j \in 0..(input.ncols - 1) :
              REq(At(output, i, j), R(input.tokens[i * input.ncols + j + 1], 1))
        /\ \A k \in 0..(Len(input.tokens) - 1) :
              REq(At(output, k \div input.ncols, k % input.ncols), R(input.tokens[k + 1], 1))

\* the 2 x 3 input 1 2 3 4 5 6 has been parsed; its element at row 1, column 2 is 6
C2_Witness ==
    /\ pc = "return"
    /\ input.fn = "parse_matrix"
    /\ input.nrows = 2 /\ input.ncols = 3
    /\ input.tokens = <<1, 2, 3, 4, 5, 6>>
    /\ output.status = "ok"
    /\ REq(At(output, 1, 2), R(6, 1))
    /\ ~REq(At(output, 1, 2), R(3, 1))


(***************************************************************************)
(* SpecRead: read_matrix_file applied to every document of at most         *)
(* MaxLines lines, each line one of DocLines, and to a missing file.       *)
(***************************************************************************)
DocLines ==
    { <<"%", "c">>,                      \* a comment
      <<" ", "%", "c">>,                 \* a comment after leading whitespace
      <<>>,                              \* a blank line
      <<"2", " ", "1">>,                 \* dimensions 2 x 1, or two values
      <<"1", " ", "2", " ", "2">>,       \* dimensions 1 x 2 as written by
                                         \* format_vector_mm_array, or three values
      <<"0", " ", "2">>,                 \* a zero dimension, or two values
      <<"1">>,                           \* one token
      <<"1", " ", "x">>,                 \* a second token that is no number
      <<"1", " ", "1", " ", "x">> }      \* a third token that is no number

Documents == UNION {[1..n -> DocLines] : n \in 0..MaxLines}

\* the text of a file holding the given lines, each ended by a newline
RECURSIVE FileText(_)
FileText(ls) == IF ls = <<>> THEN <<>> ELSE Head(ls) \o <<"\n">> \o FileText(Tail(ls))

InitRead ==
    /\ pc = "call"
    /\ \/ \E ls \in Documents :
            input = [fn |-> "read_matrix_file", doc_lines |-> ls,
                     file |-> [exists |-> TRUE, text |-> FileText(ls)]]
       \/ input = [fn |-> "read_matrix_file", doc_lines |-> <<>>,
                   file |-> [exists |-> FALSE, text |-> <<>>]]
    /\ output = Pending
    /\ MainIdle

ReadMatrixFile ==
    /\ pc = "call"
    /\ input.fn = "read_matrix_file"
    /\ output' = read_matrix_file(input.file)
    /\ pc' = "return"
    /\ UNCHANGED input
    /\ MainUnchanged

NextRead == ReadMatrixFile

SpecRead == InitRead /\ [][NextRead]_vars

Returned(fn) == pc = "return" /\ input.fn = fn

(***************************************************************************)
(* The document as the specification reads it.                             *)
(***************************************************************************)
\* a comment line: its first non-whitespace character is '%'
IsCommentLine(line) ==
    \E i \in 1..Len(line) : line[i] = "%" /\ \A j \in 1..(i - 1) : IsWhitespace(line[j])

\* the index of the first line that is no comment, 0 when there is none
FirstNonComment(ls) ==
    IF \E i \in 1..Len(ls) : ~IsCommentLine(ls[i])
    THEN CHOOSE i \in 1..Len(ls) :
            ~IsCommentLine(ls[i]) /\ \A j \in 1..(i - 1) : IsCommentLine(ls[j])
    ELSE 0

RECURSIVE RemoveComments(_)
RemoveComments(ls) ==
    IF ls = <<>> THEN <<>>
    ELSE IF IsCommentLine(Head(ls)) THEN RemoveComments(Tail(ls))
    ELSE <<Head(ls)>> \o RemoveComments(Tail(ls))

\* the tokens of the lines k.., in order
RECURSIVE TokensFrom(_, _)
TokensFrom(ls, k) ==
    IF k > Len(ls) THEN <<>> ELSE split_whitespace(ls[k]) \o TokensFrom(ls, k + 1)

IsUnsigned(tok) == tok # <<>> /\ AllDigits(tok)
IsNumeric(tok) == f64_from_str(tok).ok

NumericCount(toks) == Cardinality({k \in 1..Len(toks) : IsNumeric(toks[k])})

\* a header of lines beginning with '%', then a dimension line `rows cols ..`
\* with rows >= 1 and cols >= 1 (section 3 of the specification)
HasDimensions(ls) ==
    LET d == FirstNonComment(ls)
        split == split_whitespace(ls[d])
    IN  /\ d # 0
        /\ \A j \in 1..(d - 1) : ls[j][1] = "%"
        /\ Len(split) >= 2
        /\ IsUnsigned(split[1]) /\ IsUnsigned(split[2])
        /\ NatOf(split[1]) >= 1 /\ NatOf(split[2]) >= 1

DimRows(ls) == NatOf(split_whitespace(ls[FirstNonComment(ls)])[1])
DimCols(ls) == NatOf(split_whitespace(ls[FirstNonComment(ls)])[2])

\* C1: for a document whose dimension line gives rows >= 1 and cols >= 1,
\* read_matrix_file returns no matrix whenever the number of numeric tokens
\* after the dimension line is not rows * cols (too few or too many), and
\* returns a matrix of exactly these rows * cols values, in order, whenever the
\* lines after the dimension line hold exactly rows * cols tokens, all numeric.
C1_DimensionInvariant ==
    (Returned("read_matrix_file") /\ input.file.exists /\ HasDimensions(input.doc_lines)) =>
        LET ls   == input.doc_lines
            toks == TokensFrom(ls, FirstNonComment(ls) + 1)
            total == DimRows(ls) * DimCols(ls)
        IN  /\ NumericCount(toks) # total => output.status # "some"
            /\ (NumericCount(toks) # total /\ NumericCount(toks) = Len(toks))
                  => output.status = "none"
            /\ (Len(toks) = total /\ NumericCount(toks) = total) =>
                  /\ output.status = "some"
                  /\ output.nrows = DimRows(ls) /\ output.ncols = DimCols(ls)
                  /\ Len(output.values) = total
                  /\ \A k \in 1..total : output.values[k] = f64_from_str(toks[k]).val

\* a 2 x 1 document with its two values on two lines has been read
C1_Witness ==
    /\ Returned("read_matrix_file")
    /\ input.doc_lines = << <<"%", "c">>, <<"2", " ", "1">>, <<"1">>, <<"1">> >>
    /\ output.status = "some"
    /\ output.nrows = 2 /\ output.ncols = 1
    /\ Len(output.values) = 2

\* C3: read_matrix_file never returns a matrix with rows = 0 or cols = 0: an
\* empty input, an input of comment lines only and a dimension line with a
\* zero dimension all fail.
C3_NoEmptyMatrix ==
    Returned("read_matrix_file") =>
        ~(output.status = "some" /\ (output.nrows = 0 \/ output.ncols = 0))

\* C4: a line whose first non-whitespace character is '%' contributes nothing,
\* wherever it stands (before the dimension line, after it, between data
\* lines, after leading whitespace): whenever the document without its comment
\* lines reads as a rows x cols matrix, the document itself reads as that matrix.
C4_CommentsSkippedEverywhere ==
    (Returned("read_matrix_file") /\ input.file.exists) =>
        LET bare == read_matrix_file([exists |-> TRUE,
                                      text |-> FileText(RemoveComments(input.doc_lines))])
        IN  (bare.status = "some" /\ bare.nrows >= 1 /\ bare.ncols >= 1) =>
                /\ output.status = "some"
                /\ output.nrows = bare.nrows
                /\ output.ncols = bare.ncols
                /\ output.values = bare.values

DimensionPanics ==
    {"index out of bounds", "failed to parse row count", "failed to parse column count"}

\* C5 as claimed: when the first non-comment line has fewer than two tokens or
\* a token that is no unsigned integer, read_matrix_file fails and no matrix
\* is constructed.
C5_AnyBadTokenFails ==
    (Returned("read_matrix_file") /\ input.file.exists
        /\ FirstNonComment(input.doc_lines) # 0) =>
        LET d == FirstNonComment(input.doc_lines)
            split == split_whitespace(input.doc_lines[d])
        IN  (Len(split) < 2 \/ \E k \in 1..Len(split) : ~IsUnsigned(split[k])) =>
                output.status # "some"

\* C5 as amended: when the first non-comment line has fewer than two tokens, or
\* its first or second token is no unsigned integer, read_matrix_file panics
\* while it reads the dimension line, before any value is read, and no matrix
\* is constructed.
C5_BadDimensionLineFails ==
    (Returned("read_matrix_file") /\ input.file.exists
        /\ FirstNonComment(input.doc_lines) # 0) =>
        LET d == FirstNonComment(input.doc_lines)
            split == split_whitespace(input.doc_lines[d])
        IN  (Len(split) < 2 \/ \E k \in 1..2 : ~IsUnsigned(split[k])) =>
                /\ output.status = "panic"
                /\ output.reason \in DimensionPanics
                /\ output.lines_read <= d
                /\ output.values = <<>>

\* a dimension line `1 x` followed by a value has been read
C5_Witness ==
    /\ Returned("read_matrix_file")
    /\ input.doc_lines = << <<"%", "c">>, <<"1", " ", "x">>, <<"1">> >>
    /\ output.status = "panic"
    /\ output.reason = "failed to parse column count"
    /\ output.lines_read = 2

(***************************************************************************)
(* Inputs of the formatters.  The values are dyadic rationals, which an    *)
(* f64 holds exactly: the digits printed for them are exactly determined.  *)
(***************************************************************************)
FloatFormats == {"Scientific", "Decimal"}
Precisions == 0..MaxPrecision

\* 0, 0.25, -0.5, 0.75, 2.5, 9.75, -12.5, 125, 0.03125
FormatValues ==
    {R(0, 4), R(1, 4), R(-2, 4), R(3, 4), R(10, 4), R(39, 4), R(-50, 4), R(500, 4), R(1, 32)}

VectorsOf(vals) == {DVector_from_vec(d) : d \in UNION {[1..n -> vals] : n \in 0..MaxVecLen}}

Headers == {<<>>, <<"h">>, <<"a", " ", "b">>}

(***************************************************************************)
(* SpecFormat: format_vector_flat and its text parsed back by              *)
(* parse_vector; format_vector_mm_array.                                   *)
(***************************************************************************)
InitFormat ==
    /\ pc = "call"
    /\ \E v \in VectorsOf(FormatValues) : \E f \in FloatFormats : \E p \in Precisions :
          \/ input = [fn |-> "format_vector_flat", vector |-> v, float_format |-> f,
                      float_precision |-> p, header |-> <<>>]
          \/ \E h \in Headers :
                input = [fn |-> "format_vector_mm_array", vector |-> v, float_format |-> f,
                         float_precision |-> p, header |-> h]
    /\ output = Pending
    /\ MainIdle

FormatVectorFlat ==
    /\ pc = "call"
    /\ input.fn = "format_vector_flat"
    /\ output' = [status |-> "ok",
                  text |-> format_vector_flat(input.vector, input.float_format,
                                              input.float_precision),
                  parsed |-> NoMatrix]
    /\ pc' = "formatted"
    /\ UNCHANGED input
    /\ MainUnchanged

\* parse_vector applied to the text format_vector_flat returned
ParseVector ==
    /\ pc = "formatted"
    /\ output' = [output EXCEPT !.parsed = parse_vector(output.text)]
    /\ pc' = "return"
    /\ UNCHANGED input
    /\ MainUnchanged

FormatVectorMMArray ==
    /\ pc = "call"
    /\ input.fn = "format_vector_mm_array"
    /\ output' = [status |-> "ok",
                  text |-> format_vector_mm_array(input.vector, input.float_format,
                                                  input.float_precision, input.header)]
    /\ pc' = "return"
    /\ UNCHANGED input
    /\ MainUnchanged

NextFormat == FormatVectorFlat \/ ParseVector \/ FormatVectorMMArray

SpecFormat == InitFormat /\ [][NextFormat]_vars

\* 10^k as a rational, k of either sign
RPow10(k) == R(Pow10(k), Pow10(-k))

\* the decimal exponent of v: floor(log10 |v|), 0 for v = 0
DecimalExponent(v) == IF v.num = 0 THEN 0 ELSE Exponent10(Abs(v.num), v.den)

\* the parsed vector has the length of the formatted one
SameLength == output.parsed.status = "ok" /\ output.parsed.nrows = input.vector.nrows

\* C8 as claimed: in either float format and at any precision p, parsing the
\* text of format_vector_flat gives a vector of the same length, in the same
\* order, each element within 10^-p of the element formatted.
C8_RoundTripWithinPrecision ==
    Returned("format_vector_flat") =>
        /\ SameLength
        /\ \A i \in 1..input.vector.nrows :
              RLe(RAbs(RSub(output.parsed.data[i], input.vector.data[i])),
                  RPow10(-input.float_precision))

\* C8 as amended: parsing the text of format_vector_flat gives a vector of the
\* same length, in the same order; in the decimal format each element is within
\* 10^-p of the element formatted, in the scientific format within 10^(e-p),
\* e the decimal exponent of the element (floor(log10 |v|), 0 for v = 0).
C8_RoundTripRelative ==
    Returned("format_vector_flat") =>
        /\ SameLength
        /\ \A i \in 1..input.vector.nrows :
              LET v == input.vector.data[i]
                  e == IF input.float_format = "Decimal" THEN 0 ELSE DecimalExponent(v)
              IN  RLe(RAbs(RSub(output.parsed.data[i], v)), RPow10(e - input.float_precision))

\* <<0.75, -12.5>> has gone through the scientific format at precision 0 and
\* back, and -12.5 came back as -10
C8_Witness ==
    /\ Returned("format_vector_flat")
    /\ input.vector.data = <<R(3, 4), R(-50, 4)>>
    /\ input.float_format = "Scientific"
    /\ input.float_precision = 0
    /\ output.text = <<"8", "e", "-", "1", " ", "-", "1", "e", "1">>
    /\ output.parsed.status = "ok"
    /\ REq(output.parsed.data[2], R(-10, 1))

\* C9: for a vector of n >= 1 values and a single-line header,
\* format_vector_mm_array returns n + 2 lines: `% <header>`, `n 1 n`, then the
\* values in vector order, one a line, each after exactly two spaces; the text
\* does not end with a newline.
C9_DocumentLayout ==
    (Returned("format_vector_mm_array") /\ input.vector.nrows >= 1) =>
        LET n  == input.vector.nrows
            ls == lines(output.text)
        IN  /\ Len(ls) = n + 2
            /\ Cardinality({k \in 1..Len(output.text) : output.text[k] = "\n"}) = n + 1
            /\ output.text[Len(output.text)] # "\n"
            /\ ls[1] = <<"%", " ">> \o input.header
            /\ ls[2] = Digits(n) \o <<" ", "1", " ">> \o Digits(n)
            /\ \A i \in 1..n :
                  /\ Len(ls[i + 2]) >= 3
                  /\ SubSeq(ls[i + 2], 1, 2) = <<" ", " ">>
                  /\ ~IsWhitespace(ls[i + 2][3])
                  /\ SubSeq(ls[i + 2], 3, Len(ls[i + 2]))
                       = fmt_float(input.vector.data[i], input.float_format,
                                   input.float_precision)

\* the document of <<0.25, -12.5>>, decimal, precision 1, header "a b"
C9_Witness ==
    /\ Returned("format_vector_mm_array")
    /\ input.vector.data = <<R(1, 4), R(-50, 4)>>
    /\ input.header = <<"a", " ", "b">>
    /\ input.float_format = "Decimal"
    /\ input.float_precision = 1
    /\ lines(output.text) = << <<"%", " ", "a", " ", "b">>, <<"2", " ", "1", " ", "2">>,
                               <<" ", " ", "0", ".", "2">>,
                               <<" ", " ", "-", "1", "2", ".", "5">> >>

(***************************************************************************)
(* SpecCompare: format_comparison_results applied to every pair of         *)
(* vectors of at most MaxVecLen values.                                    *)
(***************************************************************************)
CompareValues == {R(-1, 4), R(0, 4), R(1, 4)}
Epsilons == {R(0, 4), R(1, 4), R(1, 2)}

InitCompare ==
    /\ pc = "call"
    /\ \E c \in VectorsOf(CompareValues) : \E t \in VectorsOf(CompareValues) :
       \E f \in FloatFormats : \E p \in Precisions : \E eps \in Epsilons :
          input = [fn |-> "format_comparison_results", reactions_computed |-> c,
                   reactions_true |-> t, float_format |-> f, float_precision |-> p,
                   epsilon |-> eps]
    /\ output = Pending
    /\ MainIdle

FormatComparisonResults ==
    /\ pc = "call"
    /\ input.fn = "format_comparison_results"
    /\ output' = format_comparison_results(input.reactions_computed, input.reactions_true,
                                           input.float_format, input.float_precision,
                                           input.epsilon)
    /\ pc' = "return"
    /\ UNCHANGED input
    /\ MainUnchanged

NextCompare == FormatComparisonResults

SpecCompare == InitCompare /\ [][NextCompare]_vars

\* C6: format_comparison_results fails and produces no text whenever computed
\* and truth differ in length, truth the shorter or truth the longer; it emits
\* rows only when the lengths are equal.  (Stated for a computed vector that is
\* not empty, so that a violation shows rows emitted.)
C6_LengthMismatchFails ==
    (Returned("format_comparison_results") /\ input.reactions_computed.nrows >= 1) =>
        (input.reactions_computed.nrows # input.reactions_true.nrows
            => output.status = "panic" /\ output.text = <<>>)

\* the rows of the comparison text: its lines after the title line
ComparisonRows == Tail(lines(output.text))

None == [some |-> FALSE]
Some(x) == [some |-> TRUE, value |-> x]

File(ls) == [exists |-> TRUE, text |-> FileText(ls)]
MissingFile == [exists |-> FALSE, text |-> <<>>]

\* the files an accumulation vector is read from
VectorFiles ==
    { MissingFile,
      File(<< >>),                                                   \* empty
      File(<< <<"%", " ", "a">>, <<"2", " ", "1", " ", "2">>,
              <<" ", " ", "1">>, <<" ", " ", "-", "2">> >>),         \* [1, -2]
      File(<< <<"3", " ", "1">>, <<"1", " ", "2">>, <<"4">> >>),     \* [1, 2, 4]
      File(<< <<"1", " ", "1">>, <<"3">> >>),                        \* [3]
      File(<< <<"2", " ", "1">>, <<"1">> >>),                        \* a short read
      File(<< <<"2", " ", "1">>, <<"1">>, <<"x">> >>) }              \* no float

\* the strings given with -a
VectorStrings ==
    { << >>, <<"3">>, <<"1", " ", "-", "2">>, <<"1", " ", "2", " ", "4">>, <<"1", " ", "x">> }

\* the files a stoichiometric matrix is read from
MatrixFiles ==
    { MissingFile,
      File(<< <<"0", " ", "2">> >>),                                 \* 0 x 2
      File(<< <<"2", " ", "2">>, <<"1", " ", "1">>, <<"1", " ", "1">> >>),   \* rank 1
      File(<< <<"2", " ", "2">>, <<"1", " ", "2">>, <<"3", " ", "4">> >>),   \* rank 2
      File(<< <<"2", " ", "2">>, <<"0", " ", "0">>, <<"0", " ", "0">> >>),   \* rank 0
      File(<< <<"1", " ", "2">>, <<"1", " ", "1">> >>),              \* 1 x 2
      File(<< <<"2", " ", "1">>, <<"1">>, <<"2">> >>),               \* 2 x 1
      File(<< <<"2", " ", "2">>, <<"1", " ", "1">> >>),              \* a short read
      File(<< <<"2", " ", "2">>, <<"%", "c">>, <<"1", " ", "1">>, <<"1", " ", "1">> >>) }

Options(S) == {None} \cup {Some(x) : x \in S}

InitMain ==
    /\ pc = "start"
    /\ \E ap \in Options(VectorFiles) : \E as \in Options(VectorStrings) :
       \E mp \in Options(MatrixFiles) :
          input = [fn |-> "main", accumulation_path |-> ap, accumulation_string |-> as,
                   matrix_path |-> mp]
    /\ output = Pending
    /\ MainIdle

\* a panic that leaves main with its message only, status 0: the error reported
\* and swallowed
Panic_status_zero ==
    /\ pc' = "panicked"
    /\ exit_status' = 0
    /\ UNCHANGED <<input, output, a_vector, s_matrix, results_vector, stdout>>

\* expect, unwrap and panic!: the process ends with status 101, nothing more
\* is written to stdout
Panic ==
    /\ pc' = "panicked"
    /\ exit_status' = 101
    /\ UNCHANGED <<input, output, a_vector, s_matrix, results_vector, stdout>>

\* let a_vector = match accumulation_path { .. }
LoadAccumulation ==
    /\ pc = "start"
    /\ \E v \in {IF input.accumulation_path.some
                 THEN load_vector(input.accumulation_path.value)
                 ELSE IF input.accumulation_string.some
                 THEN parse_vector(input.accumulation_string.value)
                 ELSE [status |-> "panic", nrows |-> 0, ncols |-> 0, data |-> <<>>]} :
           IF v.status = "ok"
           THEN /\ a_vector' = v
                /\ pc' = "a_loaded"
                /\ UNCHANGED <<input, output, s_matrix, results_vector, stdout, exit_status>>
           ELSE Panic

\* let s_matrix = match matrix_path { .. }
LoadMatrix ==
    /\ pc = "a_loaded"
    /\ \E m \in {IF input.matrix_path.some
                 THEN load_matrix(input.matrix_path.value)
                 ELSE default_s_matrix} :
           IF m.status = "ok"
           THEN /\ s_matrix' = m
                /\ pc' = "s_loaded"
                /\ UNCHANGED <<input, output, a_vector, results_vector, stdout, exit_status>>
           ELSE Panic

\* let results_vector = solve(a_vector, s_matrix)
Solve ==
    /\ pc = "s_loaded"
    /\ \E r \in {solve(a_vector, s_matrix)} :
           IF r.status = "ok"
           THEN /\ results_vector' = r
                /\ pc' = "solved"
                /\ UNCHANGED <<input, output, a_vector, s_matrix, stdout, exit_status>>
           ELSE Panic

\* print_matrix: one pass of `for row in matrix.row_iter()`, the values of
\* the row, then println!()
PrintRow ==
    /\ pc = "solved"
    /\ Len(stdout) < results_vector.nrows
    /\ stdout' = Append(stdout, [j \in 1..results_vector.ncols |->
                                    At(results_vector, Len(stdout), j - 1)])
    /\ UNCHANGED <<pc, input, output, a_vector, s_matrix, results_vector, exit_status>>

\* print_matrix and main return
Exit ==
    /\ pc = "solved"
    /\ Len(stdout) = results_vector.nrows
    /\ pc' = "done"
    /\ exit_status' = 0
    /\ UNCHANGED <<input, output, a_vector, s_matrix, results_vector, stdout>>

NextMain == LoadAccumulation \/ LoadMatrix \/ Solve \/ PrintRow \/ Exit

SpecMain == InitMain /\ [][NextMain]_vars

Succeeded(m) == m.status = "ok"

\* the run has ended in failure: nothing written, a non-zero exit status
FailedAtomically == stdout = <<>> /\ exit_status # 0 /\ exit_status # -1

\* the run has completed: everything loaded and solved, the whole result
\* written, exit status 0
Completed ==
    /\ Succeeded(a_vector) /\ Succeeded(s_matrix) /\ Succeeded(results_vector)
    /\ Len(stdout) = results_vector.nrows
    /\ \A i \in 1..Len(stdout) : stdout[i] = <<results_vector.data[i]>>
    /\ exit_status = 0

MaxCoef == 1

\* 5e-10: a coefficient below the cutoff 1e-9
TinyCoef == R(1, 2000000000)

SolveValues == {R(n, 1) : n \in -MaxCoef..MaxCoef}

SolveShapes == {<<1, 2>>, <<2, 1>>, <<2, 2>>}

TinyMatrices ==
    { [status |-> "ok", nrows |-> 1, ncols |-> 2, data |-> <<TinyCoef, RZero>>],
      [status |-> "ok", nrows |-> 2, ncols |-> 2, data |-> <<TinyCoef, RZero, RZero, RZero>>],
      [status |-> "ok", nrows |-> 2, ncols |-> 1, data |-> <<RZero, TinyCoef>>] }

SolveMatrices ==
    TinyMatrices \cup
    UNION { { [status |-> "ok", nrows |-> sh[1], ncols |-> sh[2], data |-> d] :
                d \in [1..(sh[1] * sh[2]) -> SolveValues] } : sh \in SolveShapes }

SolveVectors ==
    UNION { {DVector_from_vec(d) : d \in [1..n -> SolveValues]} : n \in 1..2 }

InitSolve ==
    /\ pc = "call"
    /\ \E a \in SolveVectors : \E s \in SolveMatrices :
          input = [fn |-> "solve", acc_vector |-> a, s_matrix |-> s]
    /\ output = Pending
    /\ MainIdle

CallSolve ==
    /\ pc = "call"
    /\ input.fn = "solve"
    /\ output' = solve(input.acc_vector, input.s_matrix)
    /\ pc' = "return"
    /\ UNCHANGED input
    /\ MainUnchanged

NextSolve == CallSolve

SpecSolve == InitSolve /\ [][NextSolve]_vars

Dot(u, v) == RSum([k \in 1..Len(u) |-> RMul(u[k], v[k])])

IsZeroVector(v) == \A k \in 1..Len(v.data) : v.data[k].num = 0

\* the vectors n of coefficients of -MaxCoef..MaxCoef with m * n = 0: they span
\* the null space of every matrix of SolveMatrices
NullVectors(m) ==
    {n \in [1..m.ncols -> SolveValues] : IsZeroVector(MatMul(m, DVector_from_vec(n)))}

\* a is in the range of m: orthogonal to the null space of the transpose
InRange(m, a) == \A n \in NullVectors(transpose(m)) : Dot(n, a.data).num = 0

\* m * r - a
Residual(m, r, a) ==
    [status |-> "ok", nrows |-> a.nrows, ncols |-> 1,
     data |-> [k \in 1..a.nrows |-> RAdd(MatMul(m, r).data[k], RNeg(a.data[k]))]]

\* r is the least-squares solution of least norm of m * r = a: it is orthogonal
\* to the null space of m, it satisfies the normal equations, and m * r = a
\* within 1e-4 per element when a is in the range of m
LeastNormSolution(m, r, a) ==
    /\ r.status = "ok" /\ r.nrows = m.ncols
    /\ \A n \in NullVectors(m) : Dot(n, r.data).num = 0
    /\ IsZeroVector(MatMul(transpose(m), Residual(m, r, a)))
    /\ InRange(m, a) =>
          \A k \in 1..a.nrows : RLe(RAbs(Residual(m, r, a).data[k]), R(1, 10000))

\* solve has returned for a rank-deficient matrix and a right-hand side of its
\* number of rows
SolvedRankDeficient ==
    /\ Returned("solve")
    /\ input.acc_vector.nrows = input.s_matrix.nrows
    /\ Rank(input.s_matrix) < input.s_matrix.ncols

\* C11 as claimed: for a rank-deficient matrix S and any right-hand side a,
\* solve(a, S) is the least-squares solution of least Euclidean norm: the r
\* orthogonal to the null space of S, with S * r = a within 1e-4 per element
\* when a is in the range of S.
C11_LeastNorm ==
    SolvedRankDeficient => LeastNormSolution(input.s_matrix, output, input.acc_vector)

\* the non-zero coefficients of m are above SVD_EPSILON
AboveCutoff(m) ==
    \A k \in 1..Len(m.data) : m.data[k].num # 0 => RLt(SVD_EPSILON, RAbs(m.data[k]))

\* the same for the matrices whose non-zero coefficients are above the cutoff
LeastNormAboveCutoff ==
    (SolvedRankDeficient /\ AboveCutoff(input.s_matrix)) =>
        LeastNormSolution(input.s_matrix, output, input.acc_vector)

\* a rank-deficient matrix above the cutoff has been solved for a right-hand
\* side in its range, and the solution is not zero
LeastNormReached ==
    /\ SolvedRankDeficient /\ AboveCutoff(input.s_matrix)
    /\ InRange(input.s_matrix, input.acc_vector)
    /\ output.status = "ok" /\ ~IsZeroVector(output)

(***************************************************************************)
(* SpecDocument: the text of format_vector_mm_array, written to a file and *)
(* read back by load_vector.  The headers are those of SpecFormat and      *)
(* headers of more than one line.                                          *)
(***************************************************************************)
DocumentHeaders == Headers \cup {<<"a", "\n", "b">>, <<"h", "\n">>, <<"%", "c">>}

InitDocument ==
    /\ pc = "call"
    /\ \E v \in VectorsOf(FormatValues) : \E f \in FloatFormats : \E p \in Precisions :
       \E h \in DocumentHeaders :
          input = [fn |-> "format_vector_mm_array", vector |-> v, float_format |-> f,
                   float_precision |-> p, header |-> h]
    /\ output = Pending
    /\ MainIdle

\* format_vector_mm_array, its text kept as the content of a file
FormatDocument ==
    /\ pc = "call"
    /\ output' = [text |-> format_vector_mm_array(input.vector, input.float_format,
                                                  input.float_precision, input.header),
                  loaded |-> NoMatrix]
    /\ pc' = "written"
    /\ UNCHANGED input
    /\ MainUnchanged

\* load_vector on the file of that text
LoadVector ==
    /\ pc = "written"
    /\ output' = [output EXCEPT !.loaded = load_vector([exists |-> TRUE, text |-> output.text])]
    /\ pc' = "return"
    /\ UNCHANGED input
    /\ MainUnchanged

NextDocument == FormatDocument \/ LoadVector

SpecDocument == InitDocument /\ [][NextDocument]_vars

\* the document of a vector of n >= 1 values has been written and read back
DocumentRead == pc = "return" /\ input.vector.nrows >= 1

\* load_vector succeeded with the n values of the text, in the order written:
\* value i is what line i + 2 of the writer, the formatted v[i], reads as
ReadBackInOrder ==
    /\ output.loaded.status = "ok"
    /\ output.loaded.nrows = input.vector.nrows
    /\ output.loaded.ncols = 1
    /\ \A i \in 1..input.vector.nrows :
          LET x == f64_from_str(fmt_float(input.vector.data[i], input.float_format,
                                          input.float_precision))
          IN  x.ok /\ REq(output.loaded.data[i], x.val)

\* C12 as claimed: for any vector of n >= 1 values, either float format, any
\* precision and any header text, load_vector on the text of
\* format_vector_mm_array succeeds and gives exactly n values in the order of
\* the vector, the dimension line `n 1 n` being read as rows = n, cols = 1.
C12_DocumentRoundTrip == DocumentRead => ReadBackInOrder

HeaderIsOneLine == \A k \in 1..Len(input.header) : input.header[k] # "\n"

\* C12 as amended: for any vector of n >= 1 values, either float format, any
\* precision and any header of one line, load_vector on the text of
\* format_vector_mm_array succeeds and gives exactly n values in the order of
\* the vector, the dimension line `n 1 n` being read as rows = n, cols = 1.
C12_DocumentRoundTripOneLine == (DocumentRead /\ HeaderIsOneLine) => ReadBackInOrder

\* <<0.75, -12.5>> under the header "a b" has been written and read back
C12_Witness ==
    /\ DocumentRead /\ HeaderIsOneLine
    /\ input.header = <<"a", " ", "b">>
    /\ input.vector.data = <<R(3, 4), R(-50, 4)>>
    /\ output.loaded.status = "ok"
    /\ output.loaded.nrows = 2

=============================================================================
